---- MODULE Spec2Model ----
(***************************************************************************)
(* Model of the fox-report core: the night-window resolver                 *)
(* (src/src/fox_report/time_resolver.py), the resilient store connection   *)
(* and event retrieval (src/database_query_enhanced.py) and the report     *)
(* pipeline of the fox_report package (database_query.py,                  *)
(* report_generator.py, cli/send_report.py).                               *)
(*                                                                         *)
(* Instants are seconds since the Unix epoch, dates are days since the     *)
(* epoch, times of day are seconds since midnight.  Time zones are a fixed *)
(* offset of zero.                                                         *)
(***************************************************************************)
EXTENDS Integers, Sequences, FiniteSets, TLC

\* ------------------------------------------------------------------ bounds

\* Largest lookback_nights passed to get_night_range.
MaxLookback == 2

\* Largest nights_count / num_nights of a multi-night call.
MaxNights == 2

\* Largest max_retries passed to _attempt_database_connection.
MaxRetriesBound == 4

\* ------------------------------------------------------------------ time

SecondsPerDay == 86400

\* 2025-07-01 as days since the epoch.
Date20250701 == 20270

\* The reference dates (current_date, today) of the calls.
ReferenceDates == {Date20250701}

\* "HH:MM" strings of a static configuration, as <<HH, MM>>.
StaticTimeStrings == {<<6, 0>>, <<20, 0>>, <<20, 30>>}

\* Dawn and dusk times of day that the solar computation may return for a date.
RawDawnTimes == {4 * 3600 + 1800}
RawDuskTimes == {21 * 3600, 22 * 3600 + 1800}

BufferChoices == {0, 15}

\* datetime.strptime(s, "%H:%M").time()
ParseTime(s) == s[1] * 3600 + s[2] * 60

\* datetime.combine(d, t), localized
Combine(d, t) == d * SecondsPerDay + t

\* timedelta(minutes=m)
Minutes(m) == m * 60

DateOf(instant) == instant \div SecondsPerDay

TimeOfDay(instant) == instant % SecondsPerDay

\* ------------------------------------------------------------------ resolver configuration

NoStaticTimes == [present |-> FALSE, enabled |-> FALSE,
                  start_time |-> <<0, 0>>, end_time |-> <<0, 0>>]

StaticConfigs ==
    {NoStaticTimes} \cup
    [present : {TRUE}, enabled : BOOLEAN,
     start_time : StaticTimeStrings, end_time : StaticTimeStrings]

\* config['location']: absent, present without latitude/longitude, or complete.
LocationConfigs == {"missing", "no_coordinates", "configured"}

\* What sun(observer, date) does for one date: raises, or returns a dawn and a
\* dusk of that date.
SunOutcomes ==
    [ok : {TRUE}, dawn : RawDawnTimes, dusk : RawDuskTimes] \cup
    [ok : {FALSE}, dawn : {0}, dusk : {0}]

NoWindow == [status |-> "none", dusk |-> 0, dawn |-> 0, source |-> "none",
             cause |-> "none"]

Window(dusk, dawn, source) ==
    [status |-> "window", dusk |-> dusk, dawn |-> dawn, source |-> source,
     cause |-> "none"]

Raise(cause) ==
    [status |-> "raise", dusk |-> 0, dawn |-> 0, source |-> "none",
     cause |-> cause]

\* The values of advanced.twilight_type.
TwilightTypes == {"civil", "nautical", "astronomical", "dark"}

\* The branch of _calculate_astral_times on twilight_type: the 'dusk' and
\* 'dawn' entries of the dictionary that sun() returned, in every branch.
select_twilight_times(twilight_type, s) ==
    IF twilight_type = "civil" THEN [dusk |-> s.dusk, dawn |-> s.dawn]
    ELSE IF twilight_type = "nautical" THEN [dusk |-> s.dusk, dawn |-> s.dawn]
    ELSE IF twilight_type = "astronomical" THEN [dusk |-> s.dusk, dawn |-> s.dawn]
    ELSE [dusk |-> s.dusk, dawn |-> s.dawn]

\* _calculate_astral_times with the buffer applied the wrong way round.
calculate_astral_times_buffer_narrows(cfg, target_date, s) ==
    IF cfg.location = "missing" THEN Raise("no_location")
    ELSE IF cfg.location = "no_coordinates" THEN Raise("no_coordinates")
    ELSE IF ~s.ok THEN Raise("sun_failed")
    ELSE LET selected == select_twilight_times(cfg.twilight_type, s)
             dusk == Combine(target_date, selected.dusk)
             dawn == Combine(target_date, selected.dawn)
             buffer_delta == Minutes(cfg.buffer_minutes)
         IN Window(dusk + buffer_delta, dawn - buffer_delta, "astral")

\* TimeResolver._calculate_astral_times
calculate_astral_times(cfg, target_date, s) ==
    IF cfg.location = "missing" THEN Raise("no_location")
    ELSE IF cfg.location = "no_coordinates" THEN Raise("no_coordinates")
    ELSE IF ~s.ok THEN Raise("sun_failed")
    ELSE LET selected == select_twilight_times(cfg.twilight_type, s)
             dusk == Combine(target_date, selected.dusk)
             dawn == Combine(target_date, selected.dawn)
             buffer_delta == Minutes(cfg.buffer_minutes)
         IN Window(dusk - buffer_delta, dawn + buffer_delta, "astral")

\* _calculate_static_times without the roll of an earlier end time to the
\* next calendar day.
calculate_static_times_same_day(cfg, target_date) ==
    LET static_config == cfg.static_times IN
    IF ~static_config.present \/ ~static_config.enabled
    THEN Raise("static_not_enabled")
    ELSE Window(Combine(target_date, ParseTime(static_config.start_time)),
                Combine(target_date, ParseTime(static_config.end_time)),
                "static")

\* TimeResolver._calculate_static_times
calculate_static_times(cfg, target_date) ==
    LET static_config == cfg.static_times IN
    IF ~static_config.present \/ ~static_config.enabled
    THEN Raise("static_not_enabled")
    ELSE LET start_time == ParseTime(static_config.start_time)
             end_time == ParseTime(static_config.end_time)
             dusk_dt == Combine(target_date, start_time)
             dawn_dt == IF end_time < start_time
                        THEN Combine(target_date + 1, end_time)
                        ELSE Combine(target_date, end_time)
         IN Window(dusk_dt, dawn_dt, "static")

\* get_night_range whose fallback returns a midnight-to-midnight window
\* instead of the static one.
get_night_range_default_window(cfg, current_date, lookback_nights, s) ==
    LET target_date == current_date - lookback_nights
        static_config == cfg.static_times
    IN  IF static_config.present /\ static_config.enabled
        THEN [out |-> calculate_static_times(cfg, target_date),
              cfg |-> cfg, astral_called |-> FALSE]
        ELSE LET a == calculate_astral_times(cfg, target_date, s) IN
             IF a.status = "window"
             THEN [out |-> a, cfg |-> cfg, astral_called |-> TRUE]
             ELSE [out |-> Window(Combine(target_date, 0),
                                  Combine(target_date + 1, 0), "static"),
                   cfg |-> cfg, astral_called |-> TRUE]

\* get_night_range that tries the twilight computation before looking at
\* static_times.enabled.
get_night_range_astral_first(cfg, current_date, lookback_nights, s) ==
    LET target_date == current_date - lookback_nights
        static_config == cfg.static_times
        a == calculate_astral_times(cfg, target_date, s)
    IN  IF a.status = "window"
        THEN [out |-> a, cfg |-> cfg, astral_called |-> TRUE]
        ELSE IF static_config.present
        THEN LET fallback == [cfg EXCEPT !.static_times.enabled = TRUE]
             IN [out |-> calculate_static_times(fallback, target_date),
                 cfg |-> fallback, astral_called |-> TRUE]
        ELSE [out |-> Raise(a.cause), cfg |-> cfg, astral_called |-> TRUE]

\* get_night_range that computes every window for the reference date itself,
\* whatever the lookback.
get_night_range_ignores_lookback(cfg, current_date, lookback_nights, s) ==
    LET target_date == current_date
        static_config == cfg.static_times
    IN  IF static_config.present /\ static_config.enabled
        THEN [out |-> calculate_static_times(cfg, target_date),
              cfg |-> cfg, astral_called |-> FALSE]
        ELSE LET a == calculate_astral_times(cfg, target_date, s) IN
             IF a.status = "window"
             THEN [out |-> a, cfg |-> cfg, astral_called |-> TRUE]
             ELSE IF static_config.present
             THEN LET fallback == [cfg EXCEPT !.static_times.enabled = TRUE]
                  IN [out |-> calculate_static_times(fallback, target_date),
                      cfg |-> fallback, astral_called |-> TRUE]
             ELSE [out |-> Raise(a.cause), cfg |-> cfg, astral_called |-> TRUE]

\* TimeResolver.get_night_range: the value returned or raised, the
\* configuration the call leaves behind, and whether the twilight computation
\* was invoked.
get_night_range(cfg, current_date, lookback_nights, s) ==
    LET target_date == current_date - lookback_nights
        static_config == cfg.static_times
    IN  IF static_config.present /\ static_config.enabled
        THEN [out |-> calculate_static_times(cfg, target_date),
              cfg |-> cfg, astral_called |-> FALSE]
        ELSE LET a == calculate_astral_times(cfg, target_date, s) IN
             IF a.status = "window"
             THEN [out |-> a, cfg |-> cfg, astral_called |-> TRUE]
             ELSE IF static_config.present
             THEN LET fallback == [cfg EXCEPT !.static_times.enabled = TRUE]
                  IN [out |-> calculate_static_times(fallback, target_date),
                      cfg |-> fallback, astral_called |-> TRUE]
             ELSE [out |-> Raise(a.cause), cfg |-> cfg, astral_called |-> TRUE]

NoCall == [current_date |-> 0, lookback |-> 0, target_date |-> 0,
           before |-> NoStaticTimes, sun |-> [ok |-> FALSE, dawn |-> 0, dusk |-> 0],
           astral_called |-> FALSE, out |-> NoWindow]

\* The record of one get_night_range call: its arguments, the static
\* configuration it found, what the solar computation did and what it returned.
CallRecord(cfg, current_date, lookback_nights, s, r) ==
    [current_date |-> current_date, lookback |-> lookback_nights,
     target_date |-> current_date - lookback_nights,
     before |-> cfg.static_times, sun |-> s,
     astral_called |-> r.astral_called, out |-> r.out]

\* The loop of TimeResolver.get_multiple_night_ranges from `lookback` on;
\* suns[k + 1] is what the solar computation does for lookback k.
RECURSIVE night_ranges_loop(_, _, _, _, _, _)
night_ranges_loop(cfg, current_date, nights_count, suns, lookback, acc) ==
    IF lookback >= nights_count
    THEN [cfg |-> cfg, night_ranges |-> acc.night_ranges,
          resolved |-> acc.resolved, last |-> acc.last]
    ELSE LET r == get_night_range(cfg, current_date, lookback, suns[lookback + 1])
             call == CallRecord(cfg, current_date, lookback, suns[lookback + 1], r)
         IN night_ranges_loop(r.cfg, current_date, nights_count, suns, lookback + 1,
                IF r.out.status = "window"
                THEN [night_ranges |-> Append(acc.night_ranges, <<r.out.dusk, r.out.dawn>>),
                      resolved |-> Append(acc.resolved, lookback),
                      last |-> call]
                ELSE [acc EXCEPT !.last = call])

\* A loop without the try/except around get_night_range: the first lookback
\* that fails ends it.
RECURSIVE night_ranges_loop_stops_at_failure(_, _, _, _, _, _)
night_ranges_loop_stops_at_failure(cfg, current_date, nights_count, suns, lookback, acc) ==
    IF lookback >= nights_count
    THEN [cfg |-> cfg, night_ranges |-> acc.night_ranges,
          resolved |-> acc.resolved, last |-> acc.last]
    ELSE LET r == get_night_range(cfg, current_date, lookback, suns[lookback + 1])
             call == CallRecord(cfg, current_date, lookback, suns[lookback + 1], r)
         IN IF r.out.status = "window"
            THEN night_ranges_loop_stops_at_failure(r.cfg, current_date,
                     nights_count, suns, lookback + 1,
                     [night_ranges |-> Append(acc.night_ranges, <<r.out.dusk, r.out.dawn>>),
                      resolved |-> Append(acc.resolved, lookback),
                      last |-> call])
            ELSE [cfg |-> r.cfg, night_ranges |-> acc.night_ranges,
                  resolved |-> acc.resolved, last |-> call]

get_multiple_night_ranges_stops_at_failure(cfg, last, current_date, nights_count, suns) ==
    night_ranges_loop_stops_at_failure(cfg, current_date, nights_count, suns, 0,
                      [night_ranges |-> <<>>, resolved |-> <<>>, last |-> last])

\* TimeResolver.get_multiple_night_ranges: the list returned, the lookback
\* index of each of its windows, and the configuration left behind.
get_multiple_night_ranges(cfg, last, current_date, nights_count, suns) ==
    night_ranges_loop(cfg, current_date, nights_count, suns, 0,
                      [night_ranges |-> <<>>, resolved |-> <<>>, last |-> last])

\* ------------------------------------------------------------------ store connection

\* What the backend does on one connection attempt: nothing wrong, or an error
\* raised by sqlite3.connect itself ("connect") or, once the connection is
\* open, by the pragmas or the SELECT 1 round trip ("validate").
\*   locked             sqlite3.OperationalError("database is locked")
\*   disk_io            sqlite3.OperationalError("disk I/O error")
\*   operational_other  any other sqlite3.OperationalError (missing file,
\*                      permission: "unable to open database file")
\*   not_operational    an exception that is not an OperationalError
\*                      (corruption: sqlite3.DatabaseError("file is not a database"))
AttemptErrors == {"locked", "disk_io", "operational_other", "not_operational"}

AttemptOk == [stage |-> "none", error |-> "none"]

AttemptOutcomes ==
    {AttemptOk} \cup [stage : {"connect", "validate"}, error : AttemptErrors]

\* 2 ** attempt
RECURSIVE Pow2(_)
Pow2(n) == IF n = 0 THEN 1 ELSE 2 * Pow2(n - 1)

\* The retry loop bounded by `attempt < max_retries`: it sleeps after the
\* last attempt too and leaves the loop instead of raising in the handler.
attempt_step_retries_past_last(attempt, max_retries_arg, o) ==
    IF o.error = "none"
    THEN [next |-> "return", sleep |-> <<>>, result |-> "conn"]
    ELSE IF o.error \in {"locked", "disk_io", "operational_other"}
    THEN IF o.error \in {"locked", "disk_io"}
         THEN IF attempt < max_retries_arg
              THEN [next |-> "continue", sleep |-> <<Pow2(attempt)>>, result |-> "none"]
              ELSE [next |-> "raise", sleep |-> <<>>, result |-> "DatabaseLockError"]
         ELSE [next |-> "raise", sleep |-> <<>>, result |-> "DatabaseError"]
    ELSE IF attempt < max_retries_arg - 1
         THEN [next |-> "continue", sleep |-> <<1>>, result |-> "none"]
         ELSE [next |-> "raise", sleep |-> <<>>, result |-> "DatabaseError"]

\* One iteration of the loop of _attempt_database_connection: what the try
\* body and the two except clauses do with the outcome `o` of attempt number
\* `attempt` (0-indexed).
attempt_step(attempt, max_retries_arg, o) ==
    IF o.error = "none"
    THEN [next |-> "return", sleep |-> <<>>, result |-> "conn"]
    ELSE IF o.error \in {"locked", "disk_io", "operational_other"}
    THEN IF o.error \in {"locked", "disk_io"}
         THEN IF attempt < max_retries_arg - 1
              THEN [next |-> "continue", sleep |-> <<Pow2(attempt)>>, result |-> "none"]
              ELSE [next |-> "raise", sleep |-> <<>>, result |-> "DatabaseLockError"]
         ELSE [next |-> "raise", sleep |-> <<>>, result |-> "DatabaseError"]
    ELSE IF attempt < max_retries_arg - 1
         THEN [next |-> "continue", sleep |-> <<1>>, result |-> "none"]
         ELSE [next |-> "raise", sleep |-> <<>>, result |-> "DatabaseError"]

\* Connections left open by one attempt: sqlite3.connect succeeded and nothing
\* closes the connection when a later statement of the try body raises.
opened_by_attempt(o) == IF o.stage = "connect" THEN 0 ELSE 1

\* ------------------------------------------------------------------ event store

\* Largest number of night windows passed to get_fox_events.
MaxWindows == 3

\* Rows of the Frigate `event` table.  top_score and end_time are -1 for NULL;
\* score_is_text marks a score stored as text that is not a number.
Row(id, label, camera, start_time, end_time, top_score, thumbnail) ==
    [id |-> id, label |-> label, camera |-> camera, start_time |-> start_time,
     end_time |-> end_time, top_score |-> top_score, thumbnail |-> thumbnail,
     has_clip |-> TRUE, score_is_text |-> FALSE]

\* One fox per night of 2025-07-01, 2025-06-30 and 2025-06-29.
NightRows ==
    {Row("e1", "fox", "front", Combine(Date20250701, 22 * 3600),
         Combine(Date20250701, 22 * 3600 + 30), 90, "/media/e1.jpg"),
     Row("e2", "fox", "back", Combine(Date20250701 - 1, 23 * 3600),
         Combine(Date20250701 - 1, 23 * 3600 + 20), 70, ""),
     Row("e3", "fox", "front", Combine(Date20250701 - 1, 2 * 3600),
         -1, -1, "/media/e3.jpg")}

\* A fox at noon and a cat at night.
OtherRows ==
    {Row("e4", "fox", "front", Combine(Date20250701, 12 * 3600),
         Combine(Date20250701, 12 * 3600 + 10), 80, ""),
     Row("e5", "cat", "back", Combine(Date20250701, 23 * 3600),
         Combine(Date20250701, 23 * 3600 + 5), 95, "")}

\* Two more foxes in the night of 2025-07-01, after e1: e6 at 23:00 with a
\* score that is not a number, e7 at 01:00.
LateRows ==
    {[Row("e6", "fox", "back", Combine(Date20250701, 23 * 3600),
          Combine(Date20250701, 23 * 3600 + 40), 0, "")
         EXCEPT !.score_is_text = TRUE],
     Row("e7", "fox", "front", Combine(Date20250701 + 1, 3600),
         Combine(Date20250701 + 1, 3600 + 15), 60, "")}

\* A fox of the same night whose stored end_time precedes its start_time by a
\* minute.
ReversedRows ==
    {Row("e8", "fox", "back", Combine(Date20250701 + 1, 2 * 3600),
         Combine(Date20250701 + 1, 2 * 3600 - 60), 85, "")}

\* Two foxes on the front camera in the night of 2025-07-01: scores 90 and 70
\* (in hundredths), 10 and 20 seconds long.
ScenarioRows ==
    {Row("e9", "fox", "front", Combine(Date20250701, 21 * 3600),
         Combine(Date20250701, 21 * 3600 + 10), 90, ""),
     Row("e10", "fox", "front", Combine(Date20250701, 21 * 3600 + 1800),
         Combine(Date20250701, 21 * 3600 + 1820), 70, "")}

\* Thumbnail paths for which os.path.exists is true.
ExistingFiles == {"/media/e1.jpg"}

Stores ==
    [db_found : BOOLEAN, event_table : BOOLEAN,
     rows : {some \cup OtherRows \cup late :
                some \in SUBSET NightRows,
                late \in {{}, LateRows, ReversedRows, ScenarioRows}}]

\* The rows of a set, ORDER BY start_time DESC.
RECURSIVE OrderByStartDesc(_)
OrderByStartDesc(rows) ==
    IF rows = {} THEN <<>>
    ELSE LET first == CHOOSE r \in rows :
                          \A q \in rows : q.start_time <= r.start_time
         IN <<first>> \o OrderByStartDesc(rows \ {first})

\* strftime('%s', iso) of SQLite for an instant counted in 1/ticks of a
\* second: the whole seconds of the instant, its fraction dropped.
strftime_s(instant, ticks) == (instant \div ticks) * ticks

\* WHERE label='fox' AND start_time BETWEEN strftime('%s', dusk.isoformat())
\* AND strftime('%s', dawn.isoformat()) ORDER BY start_time DESC, for instants
\* counted in 1/ticks of a second.
select_fox_events_at(ticks, rows, dusk, dawn) ==
    OrderByStartDesc({r \in rows : /\ r.label = "fox"
                                   /\ strftime_s(dusk, ticks) <= r.start_time
                                   /\ r.start_time <= strftime_s(dawn, ticks)})

\* The query on instants of whole seconds.
select_fox_events(rows, dusk, dawn) == select_fox_events_at(1, rows, dusk, dawn)

\* nights[i] if i < len(nights) else i, for the 0-indexed i
night_index_of(nights, i) == IF i < Len(nights) THEN nights[i + 1] ELSE i

\* The event dictionary built from one row of database_query_enhanced's query;
\* duration is (end_time - start_time) / 60.0 as <<numerator, denominator>>.
event_of_row(row, night_index) ==
    [event_id |-> row.id,
     confidence |-> IF row.top_score # -1 THEN row.top_score ELSE 0,
     camera |-> IF row.camera # "" THEN row.camera ELSE "unknown",
     start_time |-> row.start_time,
     end_time |-> row.end_time,
     duration |-> IF row.end_time # -1 THEN <<row.end_time - row.start_time, 60>>
                  ELSE <<0, 1>>,
     thumbnail |-> row.thumbnail,
     clip |-> row.has_clip,
     night_index |-> night_index,
     thumbnail_exists |-> FALSE,
     clip_validated |-> FALSE]

\* float(row[1]) raises ValueError for a text that is not a number.
float_raises(row) == row.score_is_text

\* A row loop without its own try/except: the first malformed row ends the
\* processing of the window.
RECURSIVE MapRowsStopsAtMalformed(_, _)
MapRowsStopsAtMalformed(rows, night_index) ==
    IF rows = <<>> THEN <<>>
    ELSE IF float_raises(Head(rows)) THEN <<>>
    ELSE <<event_of_row(Head(rows), night_index)>>
             \o MapRowsStopsAtMalformed(Tail(rows), night_index)

\* `for row in rows` of database_query_enhanced.get_fox_events: each row is
\* converted and appended, or the conversion raises ValueError/TypeError and
\* the row is skipped.
RECURSIVE MapRows(_, _)
MapRows(rows, night_index) ==
    IF rows = <<>> THEN <<>>
    ELSE IF float_raises(Head(rows)) THEN MapRows(Tail(rows), night_index)
    ELSE <<event_of_row(Head(rows), night_index)>> \o MapRows(Tail(rows), night_index)

\* _validate_media_files
validate_media_files(events) ==
    [k \in 1..Len(events) |->
        [events[k] EXCEPT
            !.thumbnail_exists = events[k].thumbnail \in ExistingFiles,
            !.clip_validated = events[k].clip]]

\* A per-window loop body that lets a failed query propagate, as a loop
\* without its own try/except does.
query_night_abort_on_error(rows, nights, ranges, i, outcome, acc) ==
    IF outcome = "ok"
    THEN [next |-> "continue",
          results |-> acc \o MapRows(select_fox_events(rows, ranges[i + 1][1],
                                                       ranges[i + 1][2]),
                                     night_index_of(nights, i))]
    ELSE [next |-> "raise", results |-> acc]

\* The body of the per-window loop of database_query_enhanced.get_fox_events
\* for the 0-indexed window i: the query is executed and its rows appended, or
\* it raises sqlite3.Error and the loop continues with the next window.
query_night(rows, nights, ranges, i, outcome, acc) ==
    IF outcome = "ok"
    THEN [next |-> "continue",
          results |-> acc \o MapRows(select_fox_events(rows, ranges[i + 1][1],
                                                       ranges[i + 1][2]),
                                     night_index_of(nights, i))]
    ELSE [next |-> "continue", results |-> acc]

\* ------------------------------------------------------------------ timeline segments

\* Rows of the Frigate `timeline` table: two segments within e1, one within
\* e2, one within e7 and one of the front camera outside every event.
TimelineRows ==
    {[source_id |-> "t1", camera |-> "front",
      timestamp |-> Combine(Date20250701, 22 * 3600 + 10)],
     [source_id |-> "t2", camera |-> "front",
      timestamp |-> Combine(Date20250701, 22 * 3600 + 20)],
     [source_id |-> "t3", camera |-> "back",
      timestamp |-> Combine(Date20250701 - 1, 23 * 3600 + 5)],
     [source_id |-> "t4", camera |-> "front",
      timestamp |-> Combine(Date20250701 + 1, 3600 + 5)],
     [source_id |-> "t5", camera |-> "front",
      timestamp |-> Combine(Date20250701, 12 * 3600)]}

\* The source ids of a set of segments, ORDER BY timestamp.
RECURSIVE OrderByTimestamp(_)
OrderByTimestamp(segs) ==
    IF segs = {} THEN <<>>
    ELSE LET first == CHOOSE g \in segs :
                          \A h \in segs : g.timestamp <= h.timestamp
         IN <<first.source_id>> \o OrderByTimestamp(segs \ {first})

\* WHERE camera = ? AND timestamp BETWEEN strftime('%s', start_time) AND
\* strftime('%s', end_time) ORDER BY timestamp; an event without an end time
\* has a bound that is not a date, and matches nothing.
segments_of(event) ==
    IF event.end_time = -1 THEN <<>>
    ELSE OrderByTimestamp({g \in TimelineRows :
             /\ g.camera = event.camera
             /\ strftime_s(event.start_time, 1) <= g.timestamp
             /\ g.timestamp <= strftime_s(event.end_time, 1)})

\* event['timeline_segments'] = segs
WithSegments(event, segs) == ("timeline_segments" :> segs) @@ event

\* for event in events: event['timeline_segments'] = []
AllWithoutSegments(events) ==
    [k \in 1..Len(events) |-> WithSegments(events[k], <<>>)]

\* The timeline pass of database_query_enhanced's
\* get_fox_events_with_timeline_segments over the fetched events.  env tells
\* what the store does: whether the database file is found, whether
\* _attempt_database_connection returns, whether the sqlite_master query
\* succeeds and finds the table, and whether the segment query of each event
\* succeeds.
enhanced_attach_timeline(events, include_timeline, env) ==
    IF ~include_timeline \/ events = <<>> THEN events
    ELSE IF ~env.db_found THEN AllWithoutSegments(events)
    ELSE IF ~env.connect_ok \/ ~env.table_query_ok THEN AllWithoutSegments(events)
    ELSE IF ~env.has_timeline_table THEN AllWithoutSegments(events)
    ELSE [k \in 1..Len(events) |->
             WithSegments(events[k],
                 IF env.seg_outcomes[k] = "ok" THEN segments_of(events[k])
                 ELSE <<>>)]

\* The timeline pass of fox_report.database_query's
\* get_fox_events_with_timeline_segments: one try block around the connection,
\* the table probe and the whole loop over the events, whose except clause
\* gives every event an empty list.  A file that is not there is created
\* empty by sqlite3.connect and has no timeline table.
package_attach_timeline(events, include_timeline, env) ==
    IF ~include_timeline \/ events = <<>> THEN events
    ELSE IF ~env.connect_ok \/ ~env.table_query_ok THEN AllWithoutSegments(events)
    ELSE IF ~(env.db_found /\ env.has_timeline_table) THEN AllWithoutSegments(events)
    ELSE IF \E k \in 1..Len(events) : env.seg_outcomes[k] # "ok"
    THEN AllWithoutSegments(events)
    ELSE [k \in 1..Len(events) |-> WithSegments(events[k], segments_of(events[k]))]

\* The events that database_query_enhanced.get_fox_events returns when the
\* connection and every window query succeed.
RECURSIVE enhanced_query_loop(_, _, _, _, _)
enhanced_query_loop(rows, nights, ranges, i, acc) ==
    IF i >= Len(ranges)
    THEN IF acc = <<>> THEN acc ELSE validate_media_files(acc)
    ELSE enhanced_query_loop(rows, nights, ranges, i + 1,
             query_night(rows, nights, ranges, i, "ok", acc).results)

\* ------------------------------------------------------------------ report pipeline (fox_report package)

\* The event dictionary built from one row by fox_report.database_query; the
\* confidence is the score of the row, duration_seconds is end_time - start_time.
package_event_of_row(row, night_index) ==
    [event_id |-> row.id,
     confidence |-> IF row.top_score # -1 THEN row.top_score ELSE 0,
     camera |-> row.camera,
     start_time |-> row.start_time,
     end_time |-> row.end_time,
     duration_seconds |-> IF row.end_time # -1
                          THEN row.end_time - row.start_time ELSE 0,
     thumbnail |-> row.thumbnail,
     clip |-> row.has_clip,
     start_timestamp |-> row.start_time,
     end_timestamp |-> IF row.end_time # -1 THEN row.end_time ELSE 0,
     night_index |-> night_index]

RECURSIVE PackageMapRows(_, _)
PackageMapRows(rows, night_index) ==
    IF rows = <<>> THEN <<>>
    ELSE <<package_event_of_row(Head(rows), night_index)>>
             \o PackageMapRows(Tail(rows), night_index)

\* The loop over dusk_dawn_ranges of fox_report.database_query.get_fox_events
\* from the 0-indexed window i on: a query that raises ends the loop, and so
\* does a row whose conversion raises, the row loop having no try/except.
RECURSIVE package_query_loop(_, _, _, _, _, _)
package_query_loop(rows, nights, ranges, outcomes, i, acc) ==
    IF i >= Len(ranges) THEN [status |-> "returned", events |-> acc]
    ELSE IF outcomes[i + 1] # "ok" THEN [status |-> "raise", events |-> <<>>]
    ELSE IF \E k \in 1..Len(select_fox_events(rows, ranges[i + 1][1], ranges[i + 1][2])) :
                float_raises(select_fox_events(rows, ranges[i + 1][1], ranges[i + 1][2])[k])
    THEN [status |-> "raise", events |-> <<>>]
    ELSE package_query_loop(rows, nights, ranges, outcomes, i + 1,
             acc \o PackageMapRows(select_fox_events(rows, ranges[i + 1][1],
                                                     ranges[i + 1][2]),
                                   night_index_of(nights, i)))

\* fox_report.database_query.get_fox_events: sqlite3.connect, then one query
\* per window; any sqlite3.Error is logged and re-raised.  There is no check
\* of the file or of the schema: sqlite3.connect raises (connect_ok false) or
\* opens the file, creating an empty database where none exists, and a
\* database without the event table makes every query raise.
package_get_fox_events(db, nights, ranges, connect_ok, outcomes) ==
    IF ~connect_ok THEN [status |-> "raise", events |-> <<>>]
    ELSE package_query_loop(db.rows, nights, ranges,
             [k \in 1..Len(ranges) |->
                 IF db.db_found /\ db.event_table THEN outcomes[k]
                 ELSE "sqlite_error"],
             0, <<>>)

\* The accumulators of generate_fox_report before its loop over the events:
\* the events of each camera, camera_stats, total_confidence, total_duration.
NoGroups == [events_by_camera |-> <<>>, camera_stats |-> <<>>,
             total_confidence |-> 0, total_duration |-> 0]

\* A loop body that creates the group of a new camera without appending the
\* event that opened it.
group_event_skips_first(acc, event) ==
    LET camera == event.camera IN
    IF camera \notin DOMAIN acc.events_by_camera
    THEN [events_by_camera |-> (camera :> <<>>) @@ acc.events_by_camera,
          camera_stats |-> (camera :> [count |-> 0, total_confidence |-> 0,
                                       total_duration |-> 0]) @@ acc.camera_stats,
          total_confidence |-> acc.total_confidence + event.confidence,
          total_duration |-> acc.total_duration + event.duration_seconds]
    ELSE LET stats == acc.camera_stats[camera] IN
         [events_by_camera |->
              (camera :> Append(acc.events_by_camera[camera], event))
                  @@ acc.events_by_camera,
          camera_stats |->
              (camera :> [count |-> stats.count + 1,
                          total_confidence |-> stats.total_confidence + event.confidence,
                          total_duration |-> stats.total_duration + event.duration_seconds])
                  @@ acc.camera_stats,
          total_confidence |-> acc.total_confidence + event.confidence,
          total_duration |-> acc.total_duration + event.duration_seconds]

\* The body of `for event in events` of generate_fox_report: the group of the
\* camera is created when missing, the event is appended to it and the
\* counters of the camera and of the report are advanced.
group_event(acc, event) ==
    LET camera == event.camera
        groups == IF camera \notin DOMAIN acc.events_by_camera
                  THEN (camera :> <<>>) @@ acc.events_by_camera
                  ELSE acc.events_by_camera
        all_stats == IF camera \notin DOMAIN acc.camera_stats
                     THEN (camera :> [count |-> 0, total_confidence |-> 0,
                                      total_duration |-> 0]) @@ acc.camera_stats
                     ELSE acc.camera_stats
        stats == all_stats[camera]
    IN  [events_by_camera |-> (camera :> Append(groups[camera], event)) @@ groups,
         camera_stats |->
             (camera :> [count |-> stats.count + 1,
                         total_confidence |-> stats.total_confidence + event.confidence,
                         total_duration |-> stats.total_duration + event.duration_seconds])
                 @@ all_stats,
         total_confidence |-> acc.total_confidence + event.confidence,
         total_duration |-> acc.total_duration + event.duration_seconds]

RECURSIVE group_events(_, _)
group_events(events, acc) ==
    IF events = <<>> THEN acc
    ELSE group_events(Tail(events), group_event(acc, Head(events)))

\* Totals whose average confidence is taken over the cameras instead of the
\* events.
report_totals_mean_over_cameras(events, acc) ==
    [total_events |-> Len(events),
     cameras_with_detections |-> Cardinality(DOMAIN acc.events_by_camera),
     average_confidence |-> IF events # <<>>
                            THEN <<acc.total_confidence,
                                   Cardinality(DOMAIN acc.events_by_camera)>>
                            ELSE <<0, 1>>,
     total_duration_seconds |-> acc.total_duration]

\* report["totals"]; a quotient a / b is the pair <<a, b>>, 0.0 is <<0, 1>>.
report_totals(events, acc) ==
    [total_events |-> Len(events),
     cameras_with_detections |-> Cardinality(DOMAIN acc.events_by_camera),
     average_confidence |-> IF events # <<>>
                            THEN <<acc.total_confidence, Len(events)>>
                            ELSE <<0, 1>>,
     total_duration_seconds |-> acc.total_duration]

\* Group statistics whose average is the undivided sum of the confidences.
camera_group_stats_sum_as_mean(stats) ==
    [event_count |-> stats["count"],
     average_confidence |-> <<stats.total_confidence, 1>>,
     total_duration_seconds |-> stats.total_duration]

\* The "stats" of one camera group.
camera_group_stats(stats) ==
    [event_count |-> stats["count"],
     average_confidence |-> <<stats.total_confidence, stats["count"]>>,
     total_duration_seconds |-> stats.total_duration]

\* report["events_by_camera"] after the loop over camera_stats.
camera_groups(acc) ==
    [camera \in DOMAIN acc.camera_stats |->
        [events |-> acc.events_by_camera[camera],
         stats |-> camera_group_stats(acc.camera_stats[camera])]]

Min(a, b) == IF a <= b THEN a ELSE b

\* report["metadata"], but for generated_at, the time of the call.
report_metadata(nights, ranges) ==
    [nights_analyzed |-> nights,
     total_nights |-> Len(nights),
     date_ranges |-> [k \in 1..Min(Len(nights), Len(ranges)) |->
                        [night |-> nights[k], dusk |-> ranges[k][1],
                         dawn |-> ranges[k][2]]]]

\* No report: generate_fox_report raised.  `events` is the local list of the
\* fetched events, `produced` tells a report from none.
NoReport == [produced |-> FALSE, metadata |-> report_metadata(<<>>, <<>>),
             events |-> <<>>, events_by_camera |-> <<>>,
             totals |-> report_totals(<<>>, NoGroups)]

\* generate_fox_report: the events are fetched, then the report is assembled;
\* an exception of get_fox_events propagates.
generate_fox_report(db, nights, ranges, connect_ok, outcomes) ==
    LET fetched == package_get_fox_events(db, nights, ranges, connect_ok, outcomes)
        acc == group_events(fetched.events, NoGroups)
    IN  IF fetched.status = "raise" THEN NoReport
        ELSE [produced |-> TRUE,
              metadata |-> report_metadata(nights, ranges),
              events |-> fetched.events,
              events_by_camera |-> camera_groups(acc),
              totals |-> report_totals(fetched.events, acc)]

\* ------------------------------------------------------------------ state

\* ------------------------------------------------------------------ emailer

MaxAttemptsBound == 4

\* What one pass of the with block of emailer.send does: the message is
\* sent, or an smtplib.SMTPException is raised by the connection, the login
\* or send_message, or another exception is (a socket error is an OSError).
SMTPExceptions == {"SMTPServerDisconnected", "SMTPAuthenticationError",
                   "SMTPRecipientsRefused"}

SendOutcomes == {"sent", "OSError"} \cup SMTPExceptions

\* One iteration of `for attempt in itertools.count(1)` of emailer.send:
\* return after the with block, the except clause for an SMTPException, and
\* any other exception propagating.
send_step(attempt_no, max_attempts, o) ==
    IF o = "sent"
    THEN [next |-> "return", sleep |-> <<>>, raised |-> "none"]
    ELSE IF o \in SMTPExceptions
    THEN IF attempt_no >= max_attempts
         THEN [next |-> "raise", sleep |-> <<>>, raised |-> o]
         ELSE [next |-> "continue", sleep |-> <<Pow2(attempt_no)>>, raised |-> "none"]
    ELSE [next |-> "raise", sleep |-> <<>>, raised |-> o]

\* emailer.send has not been called.
NoMail == [pc |-> "idle", max_attempts |-> 0, attempt |-> 0, attempts |-> <<>>,
           sleeps |-> <<>>, raised |-> "none"]

VARIABLES
    config,        \* TimeResolver.config
    last_call,     \* the last get_night_range call and what it returned
    night_ranges,  \* the list returned by the last get_multiple_night_ranges
    multi_call,    \* the arguments of that call and the lookbacks that resolved
    conn_pc,       \* _attempt_database_connection: "idle", "loop" or "done"
    max_retries,   \* its max_retries argument
    attempt,       \* its loop variable
    attempts,      \* the outcome of each attempt made so far
    sleeps,        \* the arguments of the time.sleep calls made so far
    conn_result,   \* "none", "conn", "DatabaseLockError" or "DatabaseError"
    open_connections, \* connections opened by sqlite3.connect and not closed
    connect_calls, \* the calls of _attempt_database_connection made so far
    op,            \* the operation of database_query_enhanced that was called
    store,         \* the Frigate database: file found, event table, its rows
    fetch_pc,      \* get_fox_events: "idle", "connecting", "query" or "done"
    fetch_args,    \* its arguments nights and dusk_dawn_ranges
    query_log,     \* the outcome of the query of each window so far
    results,       \* its results list
    fetch_result,  \* "none", "returned" or the exception raised; for
                   \* test_database_connection "True" or "False"
    run,           \* send_report.main: its position, locals and return value
    timeline,      \* get_fox_events_with_timeline_segments: the call made,
                   \* what its store operations did and the events it fetched
    mail           \* emailer.send: its position, max_attempts, the outcome of
                   \* each attempt, the time.sleep calls and what it raised

resolver_vars == <<config, last_call, night_ranges, multi_call>>

connect_vars == <<conn_pc, max_retries, attempt, attempts, sleeps, conn_result,
                  open_connections, connect_calls>>

fetch_vars == <<op, store, fetch_pc, fetch_args, query_log, results, fetch_result>>

vars == <<config, last_call, night_ranges, multi_call,
          conn_pc, max_retries, attempt, attempts, sleeps, conn_result,
          open_connections, connect_calls,
          op, store, fetch_pc, fetch_args, query_log, results, fetch_result,
          run, timeline, mail>>

NoMultiCall == [called |-> FALSE, current_date |-> 0, nights_count |-> 0,
                sun_ok |-> <<>>, resolved |-> <<>>]

ResolverConfigs ==
    [static_times : StaticConfigs, location : LocationConfigs,
     buffer_minutes : BufferChoices, twilight_type : {"nautical"}]

\* No _attempt_database_connection call has been made.
ConnectIdle ==
    /\ conn_pc = "idle"
    /\ max_retries = 0
    /\ attempt = 0
    /\ attempts = <<>>
    /\ sleeps = <<>>
    /\ conn_result = "none"
    /\ open_connections = 0
    /\ connect_calls = 0

NoRun == [pc |-> "idle", num_nights |-> 0, nights_list |-> <<>>,
          dusk_dawn_ranges |-> <<>>, outcomes |-> <<>>, connect_ok |-> FALSE,
          report |-> NoReport, main_result |-> "none"]

NoTimeline == [variant |-> "none", include_timeline |-> FALSE,
               fetch_ok |-> FALSE, db_found |-> FALSE, connect_ok |-> FALSE,
               table_query_ok |-> FALSE, has_timeline_table |-> FALSE,
               seg_outcomes |-> <<>>, fetched |-> <<>>]

EmptyStore == [db_found |-> FALSE, event_table |-> FALSE, rows |-> {}]

NoFetchArgs == [nights |-> <<>>, ranges |-> <<>>]

\* No operation of database_query_enhanced has been called.
FetchIdle ==
    /\ op = "none"
    /\ fetch_pc = "idle"
    /\ fetch_args = NoFetchArgs
    /\ query_log = <<>>
    /\ results = <<>>
    /\ fetch_result = "none"

InitResolver ==
    /\ config \in ResolverConfigs
    /\ last_call = NoCall
    /\ night_ranges = <<>>
    /\ multi_call = NoMultiCall
    /\ ConnectIdle
    /\ FetchIdle
    /\ store = EmptyStore
    /\ run = NoRun
    /\ timeline = NoTimeline
    /\ mail = NoMail

GetNightRange(current_date, lookback_nights, s) ==
    LET r == get_night_range(config, current_date, lookback_nights, s) IN
    /\ config' = r.cfg
    /\ last_call' = CallRecord(config, current_date, lookback_nights, s, r)
    /\ UNCHANGED <<night_ranges, multi_call>>
    /\ UNCHANGED <<connect_vars, fetch_vars, run, timeline, mail>>

GetMultipleNightRanges(current_date, nights_count, suns) ==
    LET r == get_multiple_night_ranges(config, last_call, current_date,
                                       nights_count, suns) IN
    /\ config' = r.cfg
    /\ last_call' = r.last
    /\ night_ranges' = r.night_ranges
    /\ multi_call' = [called |-> TRUE, current_date |-> current_date,
                      nights_count |-> nights_count,
                      sun_ok |-> [k \in 1..nights_count |-> suns[k].ok],
                      resolved |-> r.resolved]
    /\ UNCHANGED <<connect_vars, fetch_vars, run, timeline, mail>>

NextResolver ==
    \/ \E d \in ReferenceDates, k \in 0..MaxLookback, s \in SunOutcomes :
           GetNightRange(d, k, s)
    \/ \E d \in ReferenceDates, n \in 0..MaxNights :
           \E suns \in [1..n -> SunOutcomes] :
               GetMultipleNightRanges(d, n, suns)

SpecResolver == InitResolver /\ [][NextResolver]_vars

\* Resolvers with a location and any twilight_type, with and without static
\* times to fall back on.
TwilightConfigs ==
    [static_times : {NoStaticTimes,
                     [present |-> TRUE, enabled |-> FALSE,
                      start_time |-> <<20, 0>>, end_time |-> <<6, 0>>]},
     location : {"configured"},
     buffer_minutes : BufferChoices, twilight_type : TwilightTypes]

InitTwilight ==
    /\ config \in TwilightConfigs
    /\ last_call = NoCall
    /\ night_ranges = <<>>
    /\ multi_call = NoMultiCall
    /\ ConnectIdle
    /\ FetchIdle
    /\ store = EmptyStore
    /\ run = NoRun
    /\ timeline = NoTimeline
    /\ mail = NoMail

NextTwilight ==
    \E d \in ReferenceDates, k \in 0..MaxLookback, s \in SunOutcomes :
        GetNightRange(d, k, s)

SpecTwilight == InitTwilight /\ [][NextTwilight]_vars

\* ------------------------------------------------------------------ _attempt_database_connection

\* A resolver that is not used: static 20:00 to 06:00 windows.
DefaultConfig ==
    [static_times |-> [present |-> TRUE, enabled |-> TRUE,
                       start_time |-> <<20, 0>>, end_time |-> <<6, 0>>],
     location |-> "configured", buffer_minutes |-> 15,
     twilight_type |-> "nautical"]

ResolverIdle ==
    /\ config = DefaultConfig
    /\ last_call = NoCall
    /\ night_ranges = <<>>
    /\ multi_call = NoMultiCall

\* The static night windows of the n most recent nights up to 2025-07-01.
WindowsOf(n) ==
    get_multiple_night_ranges(DefaultConfig, NoCall, Date20250701, n,
        [k \in 1..n |-> [ok |-> FALSE, dawn |-> 0, dusk |-> 0]]).night_ranges

InitStore ==
    /\ ResolverIdle
    /\ ConnectIdle
    /\ FetchIdle
    /\ store \in Stores
    /\ run = NoRun
    /\ timeline = NoTimeline
    /\ mail = NoMail

\* The entry of _attempt_database_connection: last_error = None and the loop
\* is entered.
EnterConnect(max_retries_arg) ==
    /\ conn_pc' = "loop"
    /\ max_retries' = max_retries_arg
    /\ attempt' = 0
    /\ attempts' = <<>>
    /\ sleeps' = <<>>
    /\ conn_result' = "none"
    /\ connect_calls' = connect_calls + 1
    /\ UNCHANGED open_connections

\* A direct call of _attempt_database_connection.
BeginConnect(max_retries_arg) ==
    /\ op = "none"
    /\ op' = "connect"
    /\ EnterConnect(max_retries_arg)
    /\ UNCHANGED <<store, fetch_pc, fetch_args, query_log, results, fetch_result>>
    /\ UNCHANGED <<resolver_vars, run, timeline, mail>>

\* One iteration of `for attempt in range(max_retries)`.
AttemptConnection(o) ==
    /\ conn_pc = "loop"
    /\ attempt < max_retries
    /\ LET step == attempt_step(attempt, max_retries, o) IN
        /\ attempts' = Append(attempts, o)
        /\ sleeps' = sleeps \o step.sleep
        /\ open_connections' = open_connections + opened_by_attempt(o)
        /\ conn_result' = step.result
        /\ attempt' = IF step.next = "continue" THEN attempt + 1 ELSE attempt
        /\ conn_pc' = IF step.next = "continue" THEN "loop" ELSE "done"
    /\ UNCHANGED <<max_retries, connect_calls>>
    /\ UNCHANGED <<fetch_vars, resolver_vars, run, timeline, mail>>

\* The loop ran out of iterations: the raise after the loop.
ConnectionLoopExhausted ==
    /\ conn_pc = "loop"
    /\ attempt >= max_retries
    /\ conn_pc' = "done"
    /\ conn_result' = "DatabaseError"
    /\ UNCHANGED <<max_retries, attempt, attempts, sleeps, open_connections,
                   connect_calls>>
    /\ UNCHANGED <<fetch_vars, resolver_vars, run, timeline, mail>>

\* get_fox_events of database_query_enhanced, up to the connection attempt:
\* input validation and the search for the database file.
BeginFetch(nights, ranges) ==
    /\ op = "none"
    /\ op' = "get_fox_events"
    /\ fetch_args' = [nights |-> nights, ranges |-> ranges]
    /\ query_log' = <<>>
    /\ results' = <<>>
    /\ IF nights = <<>> \/ ranges = <<>>
       THEN /\ fetch_pc' = "done"
            /\ fetch_result' = "returned"
            /\ UNCHANGED connect_vars
       ELSE IF Len(nights) # Len(ranges)
       THEN /\ fetch_pc' = "done"
            /\ fetch_result' = "ValueError"
            /\ UNCHANGED connect_vars
       ELSE IF ~store.db_found
       THEN /\ fetch_pc' = "done"
            /\ fetch_result' = "DatabaseError"
            /\ UNCHANGED connect_vars
       ELSE /\ fetch_pc' = "connecting"
            /\ fetch_result' = "none"
            /\ EnterConnect(3)
    /\ UNCHANGED store
    /\ UNCHANGED <<resolver_vars, run, timeline, mail>>

\* get_fox_events after _attempt_database_connection: its exception is
\* re-raised, or the schema is validated; `schema_query` is what the
\* sqlite_master query does.  The finally clause closes the connection.
FetchConnected(schema_query) ==
    /\ op = "get_fox_events"
    /\ fetch_pc = "connecting"
    /\ conn_pc = "done"
    /\ IF conn_result # "conn"
       THEN /\ fetch_pc' = "done"
            /\ fetch_result' = conn_result
            /\ UNCHANGED open_connections
       ELSE IF schema_query # "ok" \/ ~store.event_table
       THEN /\ fetch_pc' = "done"
            /\ fetch_result' = "DatabaseError"
            /\ open_connections' = open_connections - 1
       ELSE /\ fetch_pc' = "query"
            /\ fetch_result' = "none"
            /\ UNCHANGED open_connections
    /\ UNCHANGED <<op, store, fetch_args, query_log, results>>
    /\ UNCHANGED <<conn_pc, max_retries, attempt, attempts, sleeps, conn_result,
                   connect_calls>>
    /\ UNCHANGED <<resolver_vars, run, timeline, mail>>

\* One iteration of the loop over dusk_dawn_ranges.
FetchQueryNight(outcome) ==
    /\ op = "get_fox_events"
    /\ fetch_pc = "query"
    /\ Len(query_log) < Len(fetch_args.ranges)
    /\ LET r == query_night(store.rows, fetch_args.nights, fetch_args.ranges,
                            Len(query_log), outcome, results) IN
        /\ query_log' = Append(query_log, outcome)
        /\ results' = r.results
        /\ IF r.next = "continue"
           THEN UNCHANGED <<fetch_pc, fetch_result, open_connections>>
           ELSE /\ fetch_pc' = "done"
                /\ fetch_result' = "DatabaseError"
                /\ open_connections' = open_connections - 1
    /\ UNCHANGED <<op, store, fetch_args>>
    /\ UNCHANGED <<conn_pc, max_retries, attempt, attempts, sleeps, conn_result,
                   connect_calls>>
    /\ UNCHANGED <<resolver_vars, run, timeline, mail>>

\* After the loop: the media files are validated, the connection is closed
\* and the results are returned.
FetchReturn ==
    /\ op = "get_fox_events"
    /\ fetch_pc = "query"
    /\ Len(query_log) = Len(fetch_args.ranges)
    /\ results' = IF results = <<>> THEN results ELSE validate_media_files(results)
    /\ fetch_pc' = "done"
    /\ fetch_result' = "returned"
    /\ open_connections' = open_connections - 1
    /\ UNCHANGED <<op, store, fetch_args, query_log>>
    /\ UNCHANGED <<conn_pc, max_retries, attempt, attempts, sleeps, conn_result,
                   connect_calls>>
    /\ UNCHANGED <<resolver_vars, run, timeline, mail>>

\* test_database_connection up to the connection attempt.
BeginTestConnection ==
    /\ op = "none"
    /\ op' = "test_database_connection"
    /\ IF ~store.db_found
       THEN /\ fetch_pc' = "done"
            /\ fetch_result' = "False"
            /\ UNCHANGED connect_vars
       ELSE /\ fetch_pc' = "connecting"
            /\ fetch_result' = "none"
            /\ EnterConnect(1)
    /\ UNCHANGED <<store, fetch_args, query_log, results>>
    /\ UNCHANGED <<resolver_vars, run, timeline, mail>>

\* test_database_connection after _attempt_database_connection: the count
\* query and the integrity check; conn.close() is reached only when neither
\* raises.
TestConnectionConnected(count_query, integrity) ==
    /\ op = "test_database_connection"
    /\ fetch_pc = "connecting"
    /\ conn_pc = "done"
    /\ fetch_pc' = "done"
    /\ IF conn_result # "conn"
       THEN /\ fetch_result' = "False"
            /\ UNCHANGED open_connections
       ELSE IF count_query # "ok" \/ ~store.event_table \/ integrity = "error"
       THEN /\ fetch_result' = "False"
            /\ UNCHANGED open_connections
       ELSE /\ fetch_result' = IF integrity = "ok" THEN "True" ELSE "False"
            /\ open_connections' = open_connections - 1
    /\ UNCHANGED <<op, store, fetch_args, query_log, results>>
    /\ UNCHANGED <<conn_pc, max_retries, attempt, attempts, sleeps, conn_result,
                   connect_calls>>
    /\ UNCHANGED <<resolver_vars, run, timeline, mail>>

NextStore ==
    \/ \E n \in 0..MaxRetriesBound : BeginConnect(n)
    \/ \E o \in AttemptOutcomes : AttemptConnection(o)
    \/ ConnectionLoopExhausted
    \/ \E n \in 0..MaxWindows, m \in 0..MaxWindows :
           BeginFetch([k \in 1..n |-> k], WindowsOf(m))
    \/ \E q \in {"ok", "sqlite_error"} : FetchConnected(q)
    \/ \E outcome \in {"ok", "sqlite_error"} : FetchQueryNight(outcome)
    \/ FetchReturn
    \/ BeginTestConnection
    \/ \E q \in {"ok", "sqlite_error"}, integrity \in {"ok", "corrupt", "error"} :
           TestConnectionConnected(q, integrity)

SpecStore == InitStore /\ [][NextStore]_vars

\* ------------------------------------------------------------------ the window query at sub-second resolution

\* An instant in tenths of a second since 2025-07-01T00:00:00, as the
\* datetimes of the twilight computation and the float start times of Frigate
\* have fractions of a second.
Tenths(hour, minute, second, tenth) ==
    ((hour * 60 + minute) * 60 + second) * 10 + tenth

\* Dusk at 20:45:00 or 20:45:00.6, dawn at 04:44:30 or 04:44:30.6 next morning.
QueryDusks == {Tenths(20, 45, 0, 0), Tenths(20, 45, 0, 6)}

QueryDawns == {Tenths(28, 44, 30, 0), Tenths(28, 44, 30, 6)}

\* Foxes around the two bounds, a fox at midnight and a cat.
QueryRows ==
    {Row("q1", "fox", "front", Tenths(20, 45, 0, 2), -1, 80, ""),
     Row("q2", "fox", "front", Tenths(20, 45, 0, 6), -1, 80, ""),
     Row("q3", "fox", "back", Tenths(24, 0, 0, 0), -1, 80, ""),
     Row("q4", "fox", "back", Tenths(28, 44, 30, 6), -1, 80, ""),
     Row("q5", "fox", "back", Tenths(28, 44, 30, 8), -1, 80, ""),
     Row("q6", "cat", "front", Tenths(23, 0, 0, 0), -1, 80, "")}

InitQuery ==
    /\ ResolverIdle
    /\ ConnectIdle
    /\ FetchIdle
    /\ store \in [db_found : {TRUE}, event_table : {TRUE},
                   rows : SUBSET QueryRows \ {{}}]
    /\ run = NoRun
    /\ timeline = NoTimeline
    /\ mail = NoMail

\* cursor.execute(query, (dusk.isoformat(), dawn.isoformat())) and the row
\* loop, for one window.
QueryWindow(dusk, dawn) ==
    /\ op = "none"
    /\ op' = "query"
    /\ fetch_args' = [nights |-> <<1>>, ranges |-> <<<<dusk, dawn>>>>]
    /\ query_log' = <<"ok">>
    /\ results' = MapRows(select_fox_events_at(10, store.rows, dusk, dawn), 1)
    /\ fetch_pc' = "done"
    /\ fetch_result' = "returned"
    /\ UNCHANGED store
    /\ UNCHANGED <<resolver_vars, connect_vars, run, timeline, mail>>

NextQuery == \E dusk \in QueryDusks, dawn \in QueryDawns : QueryWindow(dusk, dawn)

SpecQuery == InitQuery /\ [][NextQuery]_vars

\* ------------------------------------------------------------------ get_fox_events_with_timeline_segments

TimelineStores ==
    [db_found : {TRUE}, event_table : {TRUE},
     rows : {OtherRows, NightRows \cup OtherRows,
             NightRows \cup OtherRows \cup LateRows}]

TimelineEnvs(n) ==
    [db_found : BOOLEAN, connect_ok : BOOLEAN, table_query_ok : BOOLEAN,
     has_timeline_table : BOOLEAN, seg_outcomes : [1..n -> {"ok", "sqlite_error"}]]

InitTimeline ==
    /\ ResolverIdle
    /\ ConnectIdle
    /\ FetchIdle
    /\ store \in TimelineStores
    /\ run = NoRun
    /\ timeline = NoTimeline
    /\ mail = NoMail

\* get_fox_events_with_timeline_segments of database_query_enhanced
\* ("enhanced") or of fox_report.database_query ("package") for the nights 1
\* and 2: the events are fetched, an exception of get_fox_events propagating,
\* then the timeline pass runs over them.
GetFoxEventsWithTimelineSegments(variant, include_timeline, fetch_ok) ==
    /\ op = "none"
    /\ LET nights == <<1, 2>>
           ranges == WindowsOf(2)
           fetched ==
               IF ~fetch_ok THEN [status |-> "raise", events |-> <<>>]
               ELSE IF variant = "enhanced"
               THEN [status |-> "returned",
                     events |-> enhanced_query_loop(store.rows, nights, ranges, 0, <<>>)]
               ELSE package_get_fox_events(store, nights, ranges, TRUE,
                                           [k \in 1..Len(ranges) |-> "ok"])
       IN \E env \in TimelineEnvs(Len(fetched.events)) :
           /\ op' = "with_timeline"
           /\ fetch_args' = [nights |-> nights, ranges |-> ranges]
           /\ fetch_pc' = "done"
           /\ fetch_result' = IF fetched.status = "returned" THEN "returned"
                               ELSE "DatabaseError"
           /\ results' =
                 IF fetched.status # "returned" THEN <<>>
                 ELSE IF variant = "enhanced"
                 THEN enhanced_attach_timeline(fetched.events, include_timeline, env)
                 ELSE package_attach_timeline(fetched.events, include_timeline, env)
           /\ timeline' = [variant |-> variant,
                           include_timeline |-> include_timeline,
                           fetch_ok |-> fetched.status = "returned",
                           db_found |-> env.db_found,
                           connect_ok |-> env.connect_ok,
                           table_query_ok |-> env.table_query_ok,
                           has_timeline_table |-> env.has_timeline_table,
                           seg_outcomes |-> env.seg_outcomes,
                           fetched |-> fetched.events]
    /\ UNCHANGED <<store, query_log>>
    /\ UNCHANGED <<resolver_vars, connect_vars, run, mail>>

NextTimeline ==
    \E variant \in {"enhanced", "package"}, include_timeline \in BOOLEAN,
       fetch_ok \in BOOLEAN :
        GetFoxEventsWithTimelineSegments(variant, include_timeline, fetch_ok)

SpecTimeline == InitTimeline /\ [][NextTimeline]_vars

\* ------------------------------------------------------------------ send_report.main

\* Configurations of the pipeline runs: static windows, twilight windows
\* without a static configuration, twilight windows with a disabled one.
\* The last configuration has advanced.buffer_minutes of a whole day, which
\* _calculate_astral_times applies as it does any other value.
PipelineConfigs ==
    {DefaultConfig,
     [DefaultConfig EXCEPT !.static_times = NoStaticTimes],
     [DefaultConfig EXCEPT !.static_times.enabled = FALSE],
     [DefaultConfig EXCEPT !.static_times = NoStaticTimes,
                           !.buffer_minutes = 24 * 60]}

InitPipeline ==
    /\ config \in PipelineConfigs
    /\ last_call = NoCall
    /\ night_ranges = <<>>
    /\ multi_call = NoMultiCall
    /\ ConnectIdle
    /\ FetchIdle
    /\ store \in Stores
    /\ run = NoRun
    /\ timeline = NoTimeline
    /\ mail = NoMail

\* main up to `if not nights_list`: load_config, then get_last_n_nights_data,
\* which builds a TimeResolver, resolves the windows of today and numbers the
\* nights 1..num_nights; any exception in it yields ([], []).
MainResolve(config_loaded, resolver_built, today, num_nights, suns) ==
    /\ run.pc = "idle"
    /\ IF ~config_loaded
       THEN /\ run' = [run EXCEPT !.pc = "done", !.num_nights = num_nights,
                                  !.main_result = "False"]
            /\ UNCHANGED resolver_vars
       ELSE IF ~resolver_built
       THEN /\ run' = [run EXCEPT !.pc = "done", !.num_nights = num_nights,
                                  !.main_result = "False"]
            /\ UNCHANGED resolver_vars
       ELSE LET r == get_multiple_night_ranges(config, last_call, today,
                                               num_nights, suns)
                nights == [k \in 1..num_nights |-> k]
            IN /\ config' = r.cfg
               /\ last_call' = r.last
               /\ night_ranges' = r.night_ranges
               /\ multi_call' = [called |-> TRUE, current_date |-> today,
                                 nights_count |-> num_nights,
                                 sun_ok |-> [k \in 1..num_nights |-> suns[k].ok],
                                 resolved |-> r.resolved]
               /\ run' = IF nights = <<>>
                         THEN [run EXCEPT !.pc = "done", !.num_nights = num_nights,
                                          !.main_result = "False"]
                         ELSE [run EXCEPT !.pc = "resolved",
                                          !.num_nights = num_nights,
                                          !.nights_list = nights,
                                          !.dusk_dawn_ranges = r.night_ranges]
    /\ UNCHANGED <<connect_vars, fetch_vars, timeline, mail>>

\* main: generate_fox_report; an exception makes main return False.
MainGenerate(connect_ok, outcomes) ==
    /\ run.pc = "resolved"
    /\ LET report == generate_fox_report(store, run.nights_list,
                                         run.dusk_dawn_ranges, connect_ok, outcomes)
       IN run' = IF report.produced
                 THEN [run EXCEPT !.pc = "generated", !.connect_ok = connect_ok,
                                  !.outcomes = outcomes, !.report = report]
                 ELSE [run EXCEPT !.pc = "done", !.connect_ok = connect_ok,
                                  !.outcomes = outcomes, !.main_result = "False"]
    /\ UNCHANGED <<resolver_vars, connect_vars, fetch_vars, timeline, mail>>

\* main: save_json_report and the optional email.
MainDeliver(delivery) ==
    /\ run.pc = "generated"
    /\ run' = [run EXCEPT !.pc = "done",
                          !.main_result = IF delivery \in {"no_email", "sent"}
                                          THEN "True" ELSE "False"]
    /\ UNCHANGED <<resolver_vars, connect_vars, fetch_vars, timeline, mail>>

NextPipeline ==
    \/ \E config_loaded \in BOOLEAN, resolver_built \in BOOLEAN,
          today \in ReferenceDates, n \in 0..MaxNights :
           \E suns \in [1..n -> SunOutcomes] :
               MainResolve(config_loaded, resolver_built, today, n, suns)
    \/ \E connect_ok \in BOOLEAN :
           \E outcomes \in [1..Len(run.dusk_dawn_ranges) -> {"ok", "sqlite_error"}] :
               MainGenerate(connect_ok, outcomes)
    \/ \E delivery \in {"no_email", "sent", "send_failed", "save_failed"} :
           MainDeliver(delivery)

SpecPipeline == InitPipeline /\ [][NextPipeline]_vars

\* ------------------------------------------------------------------ specification: emailer

InitEmailer ==
    /\ ResolverIdle
    /\ ConnectIdle
    /\ FetchIdle
    /\ store = EmptyStore
    /\ run = NoRun
    /\ timeline = NoTimeline
    /\ mail = NoMail

\* The call send(msg, max_attempts): the first value of itertools.count(1).
BeginSend(max_attempts) ==
    /\ mail.pc = "idle"
    /\ mail' = [NoMail EXCEPT !.pc = "loop", !.max_attempts = max_attempts,
                              !.attempt = 1]
    /\ UNCHANGED <<resolver_vars, connect_vars, fetch_vars, run, timeline>>

\* One iteration of the loop of send.
SendAttempt(o) ==
    /\ mail.pc = "loop"
    /\ LET step == send_step(mail.attempt, mail.max_attempts, o) IN
        mail' = [mail EXCEPT
                   !.attempts = Append(@, o),
                   !.sleeps = @ \o step.sleep,
                   !.raised = step.raised,
                   !.attempt = IF step.next = "continue" THEN @ + 1 ELSE @,
                   !.pc = CASE step.next = "continue" -> "loop"
                            [] step.next = "return" -> "returned"
                            [] OTHER -> "raised"]
    /\ UNCHANGED <<resolver_vars, connect_vars, fetch_vars, run, timeline>>

NextEmailer ==
    \/ \E n \in 0..MaxAttemptsBound : BeginSend(n)
    \/ \E o \in SendOutcomes : SendAttempt(o)

SpecEmailer == InitEmailer /\ [][NextEmailer]_vars

\* ------------------------------------------------------------------ claims: night-window resolver

\* A get_night_range call has been made.
Called == last_call.out.status # "none"

StaticEnabledBefore == last_call.before.present /\ last_call.before.enabled

\* The twilight computation of the last call failed.
TwilightFailed == config.location # "configured" \/ ~last_call.sun.ok

\* C1: every window returned by get_night_range has dusk strictly before
\* dawn, for static times (equal or reversed times included) and for twilight
\* times with any buffer.
C1_DuskBeforeDawn ==
    last_call.out.status = "window" => last_call.out.dusk < last_call.out.dawn

C9_StaticPrecedence ==
    Called =>
        /\ StaticEnabledBefore =>
              /\ ~last_call.astral_called
              /\ last_call.out.status = "window"
              /\ last_call.out.source = "static"
        /\ ~StaticEnabledBefore =>
              /\ last_call.astral_called
              /\ ~TwilightFailed =>
                    /\ last_call.out.status = "window"
                    /\ last_call.out.source = "astral"

\* Static times enabled while the location is valid and the sun is computable.
C9_Witness ==
    /\ Called /\ StaticEnabledBefore
    /\ config.location = "configured" /\ last_call.sun.ok
    /\ last_call.out.source = "static"

\* C10: with static times enabled the window starts at start_time on the
\* target date (reference date minus lookback days) and ends at end_time on
\* the target date, or on the next calendar day when end_time < start_time.
C10_StaticWindow ==
    (Called /\ StaticEnabledBefore) =>
        LET start_time == ParseTime(last_call.before.start_time)
            end_time == ParseTime(last_call.before.end_time)
            target == last_call.current_date - last_call.lookback
        IN /\ last_call.out.status = "window"
           /\ DateOf(last_call.out.dusk) = target
           /\ TimeOfDay(last_call.out.dusk) = start_time
           /\ TimeOfDay(last_call.out.dawn) = end_time
           /\ DateOf(last_call.out.dawn) =
                 IF end_time < start_time THEN target + 1 ELSE target

\* 20:00 to 06:00 on 2025-07-01 gives 2025-07-01T20:00 to 2025-07-02T06:00.
C10_Witness ==
    /\ Called /\ StaticEnabledBefore
    /\ last_call.current_date = Date20250701 /\ last_call.lookback = 0
    /\ last_call.before.start_time = <<20, 0>>
    /\ last_call.before.end_time = <<6, 0>>
    /\ last_call.out.dusk = 1751400000
    /\ last_call.out.dawn = 1751436000

\* The raw twilight instants of the last call: what the solar computation
\* returned for the target date.
RawDusk == Combine(last_call.target_date, last_call.sun.dusk)

RawDawn == Combine(last_call.target_date, last_call.sun.dawn)

\* The last call returned a twilight-based window.
TwilightWindow == last_call.out.status = "window" /\ last_call.out.source = "astral"

C14_DuskOnDateDawnNextDay ==
    TwilightWindow =>
        /\ DateOf(last_call.out.dusk) = last_call.target_date
        /\ DateOf(last_call.out.dawn) = last_call.target_date + 1
        /\ last_call.out.dusk >= Combine(last_call.target_date, 0)
        /\ last_call.out.dawn >= Combine(last_call.target_date, 0)

\* The twilight definition that a twilight_type stands for; an unknown one is
\* taken as nautical.
TwilightKindOf(twilight_type) ==
    IF twilight_type \in {"civil", "nautical", "astronomical"}
    THEN twilight_type ELSE "nautical"

\* sun(observer, date) is called without a depression argument, so its 'dusk'
\* and 'dawn' are those of the library default, civil twilight (sun 6 degrees
\* below the horizon).  The seconds by which the dusk of a kind comes after
\* the civil dusk, and its dawn before the civil dawn, at the modelled place:
\* 40 minutes for each further 6 degrees.
TwilightLag(kind) ==
    IF kind = "civil" THEN 0
    ELSE IF kind = "nautical" THEN 40 * 60
    ELSE 80 * 60

\* C15: the dusk and dawn of a twilight window are those of the configured
\* twilight kind, civil, nautical or astronomical each with its own
\* definition, an unknown kind being treated as nautical.
C15_OwnTwilightKind ==
    TwilightWindow =>
        LET kind == TwilightKindOf(config.twilight_type) IN
        /\ last_call.out.dusk =
              RawDusk + TwilightLag(kind) - config.buffer_minutes * 60
        /\ last_call.out.dawn =
              RawDawn - TwilightLag(kind) + config.buffer_minutes * 60

RECURSIVE ResolvableFrom(_)
ResolvableFrom(k) ==
    IF k >= multi_call.nights_count THEN <<>>
    ELSE (IF \/ config.static_times.present
             \/ config.location = "configured" /\ multi_call.sun_ok[k + 1]
          THEN <<k>> ELSE <<>>) \o ResolvableFrom(k + 1)

\* C12: a failure at one lookback index neither stops the loop of
\* get_multiple_night_ranges nor raises: the result holds exactly the windows
\* of the lookback indices in 0..n-1 that resolved, in increasing lookback
\* order, the failed ones omitted.
C12_FailedLookbackOmitted ==
    multi_call.called =>
        /\ multi_call.resolved = ResolvableFrom(0)
        /\ Len(night_ranges) = Len(ResolvableFrom(0))
        /\ \A i \in 1..Len(night_ranges) :
              DateOf(night_ranges[i][1]) =
                  multi_call.current_date - ResolvableFrom(0)[i]

\* The first lookback failed, the second resolved and is the only window.
C12_Witness ==
    /\ multi_call.called /\ multi_call.nights_count = 2
    /\ ~config.static_times.present /\ config.location = "configured"
    /\ multi_call.sun_ok = <<FALSE, TRUE>>
    /\ Len(night_ranges) = 1
    /\ DateOf(night_ranges[1][1]) = multi_call.current_date - 1

\* ------------------------------------------------------------------ claims: store connection

\* Every attempt made so far failed with "database is locked".
AllLocked == \A i \in 1..Len(attempts) : attempts[i].error = "locked"

\* C4: for max_retries >= 1 and a backend that is locked on every attempt,
\* _attempt_database_connection makes exactly max_retries attempts and then
\* fails with DatabaseLockError, never with a connection or the plain
\* DatabaseError; an attempt that succeeds is the last one made and its
\* connection is the one returned.
C4_LockedRetries ==
    /\ (conn_pc = "done" /\ max_retries >= 1 /\ AllLocked) =>
          /\ Len(attempts) = max_retries
          /\ conn_result = "DatabaseLockError"
    /\ (conn_pc = "loop" /\ AllLocked) =>
          /\ conn_result = "none"
          /\ Len(attempts) < max_retries \/ max_retries = 0
    /\ \A i \in 1..Len(attempts) :
          attempts[i].error = "none" =>
              /\ i = Len(attempts)
              /\ conn_pc = "done"
              /\ conn_result = "conn"

\* Three locked attempts out of three end in DatabaseLockError.
C4_Witness ==
    /\ conn_pc = "done" /\ max_retries = 3 /\ AllLocked
    /\ Len(attempts) = 3
    /\ conn_result = "DatabaseLockError"

\* C5: with an always-locked backend and max_retries = 3 the waits are 1, 2
\* and 4 seconds, in that order, all before DatabaseLockError is raised.
C5_WaitsOneTwoFour ==
    (conn_pc = "done" /\ max_retries = 3 /\ AllLocked) => sleeps = <<1, 2, 4>>

\* C6: a non-transient error (corruption, permission, missing file) makes
\* _attempt_database_connection fail with DatabaseError on that same attempt,
\* without a wait and without a further attempt.
C6_NonTransientFailsAtOnce ==
    \A i \in 1..Len(attempts) :
        attempts[i].error \in {"operational_other", "not_operational"} =>
            /\ i = Len(attempts)
            /\ conn_pc = "done"
            /\ conn_result = "DatabaseError"
            /\ Len(sleeps) < i

\* An operation of database_query_enhanced has returned or raised.
OperationEnded ==
    \/ op = "connect" /\ conn_pc = "done"
    \/ op \in {"get_fox_events", "test_database_connection"} /\ fetch_pc = "done"

\* C7: when an operation returns or raises, every connection it opened is
\* closed, except the one _attempt_database_connection returns to its caller.
C7_NoConnectionLeftOpen ==
    OperationEnded =>
        open_connections = IF op = "connect" /\ conn_result = "conn" THEN 1 ELSE 0

\* ------------------------------------------------------------------ claims: event retrieval

\* The ids of the stored fox events that start within window w, bounds included.
FoxIdsIn(w) ==
    {r.id : r \in {q \in store.rows : /\ q.label = "fox"
                                      /\ w[1] <= q.start_time
                                      /\ q.start_time <= w[2]}}

\* Those of them whose row can be converted into an event.
WellFormedFoxIdsIn(w) ==
    {r.id : r \in {q \in store.rows : /\ q.label = "fox"
                                      /\ w[1] <= q.start_time
                                      /\ q.start_time <= w[2]
                                      /\ ~q.score_is_text}}

\* The ids of the results that carry a night index.
ResultIdsOfNight(night) ==
    {results[k].event_id :
        k \in {j \in 1..Len(results) : results[j].night_index = night}}

\* get_fox_events has entered its loop over the windows.
FetchLoopEntered ==
    /\ op = "get_fox_events"
    /\ fetch_pc = "query" \/ (fetch_pc = "done" /\ Len(query_log) > 0)

\* C2: in get_fox_events of database_query_enhanced a window whose query
\* raises a store error contributes no event, the windows after it are still
\* queried, every event of every window whose query succeeded is returned and
\* the call does not raise.
C2_FailedWindowContained ==
    FetchLoopEntered =>
        /\ fetch_pc = "done" =>
              /\ fetch_result = "returned"
              /\ Len(query_log) = Len(fetch_args.ranges)
        /\ \A i \in 1..Len(query_log) :
              ResultIdsOfNight(fetch_args.nights[i]) =
                  IF query_log[i] = "ok"
                  THEN WellFormedFoxIdsIn(fetch_args.ranges[i]) ELSE {}

\* Three windows, the second one failed: the events of the first and the
\* third are returned.
C2_Witness ==
    /\ op = "get_fox_events" /\ fetch_pc = "done"
    /\ NightRows \subseteq store.rows
    /\ query_log = <<"ok", "sqlite_error", "ok">>
    /\ fetch_result = "returned"
    /\ {results[k].event_id : k \in 1..Len(results)} = {"e1", "e3"}

\* The position of an event in the results, 0 when it is not there.
ResultIndexOf(id) ==
    IF \E k \in 1..Len(results) : results[k].event_id = id
    THEN CHOOSE k \in 1..Len(results) : results[k].event_id = id
    ELSE 0

\* C17: in get_fox_events a row that cannot be converted into an event is
\* dropped without failing the call: the well-formed rows of its window,
\* before and after it, and the rows of the later windows are still returned.
C17_MalformedRowDropped ==
    FetchLoopEntered =>
        /\ fetch_pc = "done" => fetch_result = "returned"
        /\ \A k \in 1..Len(results) :
              \A r \in store.rows : r.id = results[k].event_id => ~r.score_is_text
        /\ \A i \in 1..Len(query_log) :
              query_log[i] = "ok" =>
                  WellFormedFoxIdsIn(fetch_args.ranges[i]) \subseteq
                      ResultIdsOfNight(fetch_args.nights[i])

\* The first window holds e7, the malformed e6 and e1, newest first: e7 and
\* e1 are returned in that order, followed by the events of the next window.
C17_Witness ==
    /\ op = "get_fox_events" /\ fetch_pc = "done" /\ fetch_result = "returned"
    /\ LateRows \cup NightRows \subseteq store.rows
    /\ Len(query_log) >= 2 /\ query_log[1] = "ok" /\ query_log[2] = "ok"
    /\ ResultIndexOf("e6") = 0
    /\ ResultIndexOf("e7") = 1 /\ ResultIndexOf("e1") = 2
    /\ ResultIndexOf("e2") = 3

\* C18: the events fetched for a window are exactly the stored events with the
\* label 'fox' whose start_time t satisfies window.start <= t <= window.end,
\* both bounds included.
C18_ExactInclusiveWindow ==
    op = "query" =>
        {results[k].event_id : k \in 1..Len(results)} =
            {r.id : r \in {q \in store.rows :
                              /\ q.label = "fox"
                              /\ fetch_args.ranges[1][1] <= q.start_time
                              /\ q.start_time <= fetch_args.ranges[1][2]}}

\* The timeline pass failed for the k-th fetched event: no database, no
\* connection, no timeline table, or the segment query of the event failed.
TimelineFailedFor(k) ==
    \/ ~timeline.db_found
    \/ ~timeline.connect_ok
    \/ ~timeline.table_query_ok
    \/ ~timeline.has_timeline_table
    \/ timeline.seg_outcomes[k] # "ok"

\* C19: get_fox_events_with_timeline_segments with include_timeline=True never
\* fails because of the timeline pass: all the fetched events are returned,
\* those affected by a failure with an empty timeline_segments list, the
\* others with their segments.
C19_TimelinePassContained ==
    (/\ timeline.variant # "none"
     /\ timeline.fetch_ok
     /\ timeline.include_timeline) =>
        /\ fetch_result = "returned"
        /\ Len(results) = Len(timeline.fetched)
        /\ \A k \in 1..Len(results) :
              /\ results[k].event_id = timeline.fetched[k].event_id
              /\ results[k].timeline_segments =
                    IF TimelineFailedFor(k) THEN <<>>
                    ELSE segments_of(timeline.fetched[k])

\* ------------------------------------------------------------------ claims: report pipeline

\* main got as far as generate_fox_report with a reachable database.
GenerationAttempted ==
    /\ run.pc \in {"generated", "done"}
    /\ run.nights_list # <<>>
    /\ Len(run.outcomes) = Len(run.dusk_dawn_ranges)
    /\ run.connect_ok /\ store.db_found /\ store.event_table

\* C3: in the pipeline of the fox_report package a failure of the query of
\* one night window never aborts the run: a report is still produced and it
\* holds the events of all the other windows.
C3_WindowFailureContained ==
    (/\ GenerationAttempted
     /\ \E i \in 1..Len(run.outcomes) : run.outcomes[i] # "ok"
     /\ \E j \in 1..Len(run.outcomes) : run.outcomes[j] = "ok") =>
        /\ run.report.produced
        /\ \A i \in 1..Len(run.outcomes) :
              run.outcomes[i] = "ok" =>
                  FoxIdsIn(run.dusk_dawn_ranges[i]) \subseteq
                      {run.report.events[k].event_id :
                          k \in 1..Len(run.report.events)}

\* The store could not be initialised: no database file, or no event table.
StoreInitFailure == ~store.db_found \/ ~store.event_table

\* C16: a store-initialization failure is fatal for the whole run: with the
\* database file not found or the event table missing no report is produced
\* and main does not return True.
C16_StoreFailureFatal ==
    (/\ run.pc \in {"generated", "done"}
     /\ run.nights_list # <<>>
     /\ StoreInitFailure) =>
        /\ ~run.report.produced
        /\ run.main_result # "True"

\* The stored row of an event of the report.
RowOfEvent(event) == CHOOSE r \in store.rows : r.id = event.event_id

\* C20: every event produced by get_fox_events has duration_seconds >= 0,
\* equal to max(0, end_time - start_time) when the stored start and end times
\* are both present and to 0 when one is missing.
C20_DurationNonNegative ==
    run.report.produced =>
        \A k \in 1..Len(run.report.events) :
            LET event == run.report.events[k]
                row == RowOfEvent(event)
            IN /\ event.duration_seconds >= 0
               /\ event.duration_seconds =
                     IF row.end_time = -1 THEN 0
                     ELSE IF row.end_time - row.start_time > 0
                     THEN row.end_time - row.start_time ELSE 0

\* ------------------------------------------------------------------ claims: report aggregation

\* The events of the produced report, in the order they were fetched.
ReportEvents == run.report.events

\* The positions in ReportEvents of the events of a camera.
PositionsOf(camera) ==
    {k \in 1..Len(ReportEvents) : ReportEvents[k].camera = camera}

RECURSIVE ConfidenceSum(_)
ConfidenceSum(positions) ==
    IF positions = {} THEN 0
    ELSE LET k == CHOOSE x \in positions : TRUE
         IN ReportEvents[k].confidence + ConfidenceSum(positions \ {k})

RECURSIVE DurationSum(_)
DurationSum(positions) ==
    IF positions = {} THEN 0
    ELSE LET k == CHOOSE x \in positions : TRUE
         IN ReportEvents[k].duration_seconds + DurationSum(positions \ {k})

RECURSIVE GroupCountSum(_)
GroupCountSum(cameras) ==
    IF cameras = {} THEN 0
    ELSE LET c == CHOOSE x \in cameras : TRUE
         IN run.report.events_by_camera[c].stats.event_count
                + GroupCountSum(cameras \ {c})

\* The groups whose event list holds the k-th fetched event.
GroupsHolding(k) ==
    {c \in DOMAIN run.report.events_by_camera :
        \E j \in 1..Len(run.report.events_by_camera[c].events) :
            run.report.events_by_camera[c].events[j] = ReportEvents[k]}

\* C21: in every report the event_count of the camera groups sum up to
\* totals.total_events, and every fetched event is in exactly one group.
C21_GroupCountsSumToTotal ==
    run.report.produced =>
        /\ GroupCountSum(DOMAIN run.report.events_by_camera) =
              run.report.totals.total_events
        /\ run.report.totals.total_events = Len(ReportEvents)
        /\ \A k \in 1..Len(ReportEvents) : Cardinality(GroupsHolding(k)) = 1

\* A report of three events or more on two cameras.
C21_Witness ==
    /\ run.report.produced
    /\ Len(ReportEvents) >= 3
    /\ DOMAIN run.report.events_by_camera = {"front", "back"}

\* C22: total_events is the number of fetched events, average_confidence
\* their mean confidence and 0.0 without events, total_duration_seconds the
\* sum of their durations, cameras_with_detections the number of distinct
\* cameras; nothing is divided by zero.
C22_TotalsFollowFormulas ==
    run.report.produced =>
        LET totals == run.report.totals
            all == 1..Len(ReportEvents)
        IN /\ totals.total_events = Len(ReportEvents)
           /\ totals.average_confidence[2] # 0
           /\ IF ReportEvents = <<>>
              THEN totals.average_confidence = <<0, 1>>
              ELSE totals.average_confidence[1] * Len(ReportEvents) =
                       ConfidenceSum(all) * totals.average_confidence[2]
           /\ totals.total_duration_seconds = DurationSum(all)
           /\ totals.cameras_with_detections =
                 Cardinality({ReportEvents[k].camera : k \in all})

\* e1 on the front camera with 0.90 and e2 on the back camera with 0.70:
\* two events, two cameras, mean 1.60 / 2, 50 seconds.
C22_Witness ==
    /\ run.report.produced
    /\ {ReportEvents[k].event_id : k \in 1..Len(ReportEvents)} = {"e1", "e2"}
    /\ run.report.totals = [total_events |-> 2, cameras_with_detections |-> 2,
                             average_confidence |-> <<160, 2>>,
                             total_duration_seconds |-> 50]

\* C23: for every camera group event_count is the number of events of the
\* camera, average_confidence the mean of their confidences and
\* total_duration_seconds the sum of their durations.
C23_GroupStats ==
    run.report.produced =>
        /\ DOMAIN run.report.events_by_camera =
              {ReportEvents[k].camera : k \in 1..Len(ReportEvents)}
        /\ \A c \in DOMAIN run.report.events_by_camera :
              LET stats == run.report.events_by_camera[c].stats IN
              /\ stats.event_count = Cardinality(PositionsOf(c))
              /\ stats.average_confidence[2] # 0
              /\ stats.average_confidence[1] * Cardinality(PositionsOf(c)) =
                    ConfidenceSum(PositionsOf(c)) * stats.average_confidence[2]
              /\ stats.total_duration_seconds = DurationSum(PositionsOf(c))

\* Two events on camera front with confidences 0.90 and 0.70 and durations
\* 10 s and 20 s: count 2, mean 1.60 / 2 = 0.80, total duration 30.
C23_Witness ==
    /\ run.report.produced
    /\ {ReportEvents[k].event_id : k \in PositionsOf("front")} = {"e9", "e10"}
    /\ run.report.events_by_camera["front"].stats =
          [event_count |-> 2, average_confidence |-> <<160, 2>>,
           total_duration_seconds |-> 30]

\* ------------------------------------------------------------------ claims: degraded runs

\* The resolver left out the window of a lookback of the run.
WindowOmitted == Len(run.dusk_dawn_ranges) < run.num_nights

\* The report of the run says that it is degraded.
DegradedIndicated ==
    /\ "degraded" \in DOMAIN run.report.metadata
    /\ run.report.metadata["degraded"] # 0

\* C24: the report of a run that partially failed, here by a night window
\* that the resolver omitted, carries a non-zero degraded indicator in its
\* metadata, and the report of a run without such a failure carries none.
C24_DegradedIndicator ==
    run.report.produced => (WindowOmitted <=> DegradedIndicated)

\* ------------------------------------------------------------------ claims: fallback and configuration

\* C25: the static fallback of get_night_range is temporary: after a call
\* the static configuration of the resolver (static_times.enabled) is as the
\* call found it, so that a later call whose twilight computation succeeds
\* still takes the twilight window.
C25_FallbackLeavesConfig ==
    Called => config.static_times = last_call.before

\* ------------------------------------------------------------------ claims: connection calls

\* C26: a get_fox_events call of database_query_enhanced over n non-empty
\* night windows that returns has called _attempt_database_connection once
\* for each window, n times in all.
C26_ConnectionCallPerWindow ==
    ( /\ op = "get_fox_events"
      /\ fetch_pc = "done"
      /\ fetch_result = "returned"
      /\ fetch_args.nights # <<>>
      /\ fetch_args.ranges # <<>> )
    => connect_calls = Len(fetch_args.ranges)

\* ------------------------------------------------------------------ claims: emailer

LastAttempt == mail.attempts[Len(mail.attempts)]

\* C30: send(msg, max_attempts) makes at most max_attempts attempts; a
\* successful attempt is the last one and send returns after it; the wait
\* after the failed attempt k, counted from 1, is 2^k seconds; and when the
\* attempt numbered max_attempts fails with an SMTPException, send raises
\* that exception.
C30_SendRetriesAndTerminates ==
    mail.pc # "idle" =>
        /\ Len(mail.attempts) <= mail.max_attempts
        /\ \A k \in 1..Len(mail.attempts) :
              mail.attempts[k] = "sent" =>
                  k = Len(mail.attempts) /\ mail.pc = "returned"
        /\ mail.pc = "returned" => LastAttempt = "sent"
        /\ Len(mail.sleeps) = IF mail.pc = "loop" THEN Len(mail.attempts)
                               ELSE Len(mail.attempts) - 1
        /\ \A k \in 1..Len(mail.sleeps) : mail.sleeps[k] = Pow2(k)
        /\ ( /\ Len(mail.attempts) = mail.max_attempts
             /\ mail.attempts # <<>>
             /\ LastAttempt \in SMTPExceptions )
           => mail.pc = "raised" /\ mail.raised = LastAttempt

\* ------------------------------------------------------------------ claims: night labels and unresolved runs

\* main went past `if not nights_list` with the data of get_last_n_nights_data.
NightsReturned == run.pc \in {"resolved", "generated"} \/ run.report.produced

\* C28: in the data returned by get_last_n_nights_data and in the metadata of
\* the report there are as many night labels as windows, and the k-th label
\* is the one of the lookback whose window is the k-th window (label =
\* lookback + 1), also when the resolver omitted a lookback.
C28_LabelsPairWithOwnWindow ==
    NightsReturned =>
        /\ Len(run.nights_list) = Len(run.dusk_dawn_ranges)
        /\ \A k \in 1..Len(run.dusk_dawn_ranges) :
              run.nights_list[k] = multi_call.resolved[k] + 1
        /\ run.report.produced =>
              /\ Len(run.report.metadata.nights_analyzed) =
                    Len(run.report.metadata.date_ranges)
              /\ \A k \in 1..Len(run.report.metadata.date_ranges) :
                    run.report.metadata.date_ranges[k].night =
                        multi_call.resolved[k] + 1

\* C29: a run for which no night window was resolved, because the resolver
\* could not be built or because every lookback failed, generates no report
\* and ends with main returning False.
C29_AbortWithoutWindows ==
    (run.pc # "idle" /\ run.dusk_dawn_ranges = <<>>) =>
        /\ ~run.report.produced
        /\ run.main_result # "True"
        /\ run.pc = "done" => run.main_result = "False"

\* ------------------------------------------------------------------ claims: events of overlapping windows

\* C27: no event is twice in the list that get_fox_events returned to
\* generate_fox_report: the event_id values of the fetched events are
\* pairwise distinct, whatever windows the resolver produced, overlapping
\* ones included.
C27_EventIdsDistinct ==
    run.report.produced =>
        \A i \in 1..Len(ReportEvents) : \A j \in 1..Len(ReportEvents) :
            i # j => ReportEvents[i].event_id # ReportEvents[j].event_id

====
